---- MODULE Spec2Model ----
(***************************************************************************)
(* Model of vasp-opt-follows: the HDF5 loader and derived-quantity         *)
(* computation (data.py: VASPData, main.py: VaspOptData) and the threaded  *)
(* load of a GraphWindow (windows.py / main.py: GraphWindow.load_data).    *)
(*                                                                         *)
(* Two programs live in the source: the package modules windows.py+data.py *)
(* and the older single-file main.py.  The variable "variant" says which   *)
(* one is running.                                                         *)
(***************************************************************************)
EXTENDS Integers, Sequences, FiniteSets, TLC

(***************************************************************************)
(* Floating point.  numpy computes in IEEE binary64: every operation is    *)
(* the exact result rounded to nearest, ties to even.  The model keeps     *)
(* that rule with a significand of Precision bits instead of 53 and an     *)
(* unbounded exponent.  A value is [m, e] and stands for m * 2^e, with     *)
(* m = 0 or 2^(Precision-1) <= |m| < 2^Precision.  The integers stored in  *)
(* the files of the model are below 2^Precision in magnitude, hence exact. *)
(***************************************************************************)
Precision == 7

RECURSIVE Pow2(_)
Pow2(n) == IF n <= 0 THEN 1 ELSE 2 * Pow2(n - 1)

Abs(n) == IF n < 0 THEN -n ELSE n

FZero == [m |-> 0, e |-> 0]

\* (n / d) * 2^e rounded to Precision bits, n >= 0, d > 0.
RECURSIVE RoundQ(_, _, _)
RoundQ(n, d, e) ==
    IF n = 0 THEN FZero
    ELSE IF n >= d * Pow2(Precision) THEN RoundQ(n, 2 * d, e + 1)
    ELSE IF n < d * Pow2(Precision - 1) THEN RoundQ(2 * n, d, e - 1)
    ELSE LET q  == n \div d
             r  == n % d
             up == (2 * r > d) \/ (2 * r = d /\ q % 2 = 1)
             q1 == IF up THEN q + 1 ELSE q
         IN  IF q1 = Pow2(Precision)
             THEN [m |-> Pow2(Precision - 1), e |-> e + 1]
             ELSE [m |-> q1, e |-> e]

\* an integer of the file as a float (signed)
FromInt(n) ==
    LET a == RoundQ(Abs(n), 1, 0)
    IN  IF n < 0 THEN [m |-> -a.m, e |-> a.e] ELSE a

\* x * x
FSquare(x) == RoundQ(x.m * x.m, 1, 2 * x.e)

\* x + y for x, y >= 0
FAdd(x, y) ==
    IF x.m = 0 THEN y
    ELSE IF y.m = 0 THEN x
    ELSE IF x.e <= y.e
         THEN RoundQ(x.m + y.m * Pow2(y.e - x.e), 1, x.e)
         ELSE RoundQ(x.m * Pow2(x.e - y.e) + y.m, 1, y.e)

\* x / n for x >= 0 and an integer count n > 0
FDivN(x, n) == RoundQ(x.m, n, x.e)

\* sqrt(x) for x >= 0, correctly rounded
RECURSIVE SqrtScale(_, _)
SqrtScale(m, k) ==
    IF m * Pow2(k) >= Pow2(2 * Precision) THEN k ELSE SqrtScale(m, k + 2)

\* the integer c with lo <= c < hi and c * c <= t < (c + 1) * (c + 1)
RECURSIVE ISqrt(_, _, _)
ISqrt(t, lo, hi) ==
    IF hi - lo <= 1 THEN lo
    ELSE LET mid == (lo + hi) \div 2
         IN  IF mid * mid <= t THEN ISqrt(t, mid, hi) ELSE ISqrt(t, lo, mid)

FSqrt(x) ==
    IF x.m = 0 THEN FZero
    ELSE LET k   == SqrtScale(x.m, x.e % 2)
             T   == x.m * Pow2(k)
             s   == ISqrt(T, Pow2(Precision), Pow2(Precision + 1))
             rem == T - s * s
             q   == s \div 2
             up  == (s % 2 = 1) /\ (rem > 0 \/ q % 2 = 1)
             q1  == IF up THEN q + 1 ELSE q
             e1  == ((x.e - k) \div 2) + 1
         IN  IF q1 = Pow2(Precision)
             THEN [m |-> Pow2(Precision - 1), e |-> e1 + 1]
             ELSE [m |-> q1, e |-> e1]

\* x <= y for x, y >= 0
FLeq(x, y) ==
    IF x.m = 0 THEN TRUE
    ELSE IF y.m = 0 THEN FALSE
    ELSE IF x.e <= y.e THEN x.m <= y.m * Pow2(y.e - x.e)
         ELSE x.m * Pow2(x.e - y.e) <= y.m


FMax2(x, y) == IF FLeq(x, y) THEN y ELSE x

(***************************************************************************)
(* Arrays.  A numpy array is [shape, v]: v is the nested sequence of its   *)
(* entries, shape its dimensions (kept apart because an array with a zero  *)
(* dimension still has a shape).  Python's index i is index i + 1 here.    *)
(* The raw arrays hold integers (exact floats); energies, their            *)
(* differences and determinants stay integers, because sums and products   *)
(* of the small integers used here are exact in binary64.                  *)
(***************************************************************************)
Arr2(n, c, f(_, _)) ==
    [shape |-> <<n, c>>, v |-> [i \in 1..n |-> [j \in 1..c |-> f(i, j)]]]

Arr3(n, a, k, f(_, _, _)) ==
    [shape |-> <<n, a, k>>,
     v |-> [i \in 1..n |-> [j \in 1..a |-> [x \in 1..k |-> f(i, j, x)]]]]

NoArray == [shape |-> <<>>, v |-> <<>>]

RECURSIVE SeqMin(_)
SeqMin(s) ==
    IF Len(s) = 1 THEN s[1]
    ELSE LET r == SeqMin(Tail(s)) IN IF s[1] <= r THEN s[1] ELSE r

\* add.reduce of a sequence of floats, left to right
RECURSIVE FSum(_)
FSum(s) ==
    IF Len(s) = 0 THEN FZero
    ELSE IF Len(s) = 1 THEN s[1]
    ELSE FAdd(FSum(SubSeq(s, 1, Len(s) - 1)), s[Len(s)])

RECURSIVE FMaxSeq(_)
FMaxSeq(s) ==
    IF Len(s) = 1 THEN s[1] ELSE FMax2(FMaxSeq(SubSeq(s, 1, Len(s) - 1)), s[Len(s)])

\* numpy.linalg.norm over the last axis: sqrt(add.reduce(x * x)), x a
\* sequence of floats
Norm(x) == FSqrt(FSum([i \in DOMAIN x |-> FSquare(x[i])]))

\* numpy.sqrt(numpy.mean(x ** 2)) over a sequence of floats of length > 0
Rms(x) == FSqrt(FDivN(FSum([i \in DOMAIN x |-> FSquare(x[i])]), Len(x)))

\* numpy.linalg.det of a square matrix of integers (1x1, 2x2, 3x3)
Det(a) ==
    IF Len(a) = 0 THEN 1
    ELSE IF Len(a) = 1 THEN a[1][1]
    ELSE IF Len(a) = 2 THEN a[1][1] * a[2][2] - a[1][2] * a[2][1]
    ELSE   a[1][1] * (a[2][2] * a[3][3] - a[2][3] * a[3][2])
         - a[1][2] * (a[2][1] * a[3][3] - a[2][3] * a[3][1])
         + a[1][3] * (a[2][1] * a[3][2] - a[2][2] * a[3][1])

(***************************************************************************)
(* The HDF5 file.  exists: the path opens as an HDF5 container; group:     *)
(* 'intermediate/ion_dynamics' is there; has: the datasets present         *)
(* ("selective_dynamics_ions" stands for the mask at                       *)
(* '/input/poscar/selective_dynamics_ions'); the arrays are the datasets'  *)
(* contents (NoArray when absent).                                         *)
(***************************************************************************)
energy_label == 1

None == [cls |-> "NoneType"]

NoExc == "none"

\* (mutant) an except clause that does not name KeyError
Caught_NoKeyError == {"OSError", "ValueError", "LinAlgError", "VASPDataError"}

\* the exceptions load_data's except clause names, with their subclasses
Caught == {"OSError", "KeyError", "ValueError", "LinAlgError", "VASPDataError"}

\* (mutant) the first column whatever the label
Column_First(table, label) ==
    [shape |-> <<table.shape[1]>>,
     v |-> [i \in 1..table.shape[1] |-> table.v[i][1]]]

\* energies[:, energy_label]
Column(table, label) ==
    [shape |-> <<table.shape[1]>>,
     v |-> [i \in 1..table.shape[1] |-> table.v[i][label + 1]]]

\* data.py: lines 47-52, the exception they raise (NoExc: none)
ReadExc(file) ==
    IF ~file.group THEN "KeyError"
    ELSE IF "energies" \notin file.has THEN "KeyError"
    ELSE IF file.energies.shape[2] <= energy_label THEN "IndexError"
    ELSE IF {"forces", "position_ions", "lattice_vectors"} \subseteq file.has
         THEN NoExc
         ELSE "KeyError"

\* data.py: lines 47-52, the local variables they set
ReadRaw(file) ==
    [energies        |-> Column(file.energies, energy_label),
     forces          |-> file.forces,
     positions       |-> file.position_ions,
     lattice_vectors |-> file.lattice_vectors]

\* main.py: lines 43-47 (the whole energy table, no lattice vectors)
ReadExcMain(file) ==
    IF ~file.group THEN "KeyError"
    ELSE IF {"energies", "forces", "position_ions"} \subseteq file.has
         THEN NoExc
         ELSE "KeyError"

ReadRawMain(file) ==
    [energies        |-> file.energies,
     forces          |-> file.forces,
     positions       |-> file.position_ions,
     lattice_vectors |-> NoArray]

HasMask(file) == "selective_dynamics_ions" \in file.has

(***************************************************************************)
(* pos_mask = numpy.where(mask == 0) is the pair (rows, columns) of the    *)
(* zero entries.  In forces[:, pos_mask] that pair is one index on axis 1  *)
(* (the atoms): an integer array of shape (2, k) holding the rows and the  *)
(* columns.  PosMask is the set of the values of that array (0-based).     *)
(***************************************************************************)
PosMask(mask) ==
    LET zeros == {ix \in (1..mask.shape[1]) \X (1..mask.shape[2]) :
                     mask.v[ix[1]][ix[2]] = 0}
    IN  {ix[1] - 1 : ix \in zeros} \cup {ix[2] - 1 : ix \in zeros}

\* forces[:, pos_mask] = .0 : an index beyond axis 1 raises IndexError
MaskExc(file, forces) ==
    IF HasMask(file) /\ \E a \in PosMask(file.mask) : a >= forces.shape[2]
    THEN "IndexError" ELSE NoExc

\* forces[:, pos_mask] = .0 : every atom named by the index is zeroed whole
MaskedForces(file, forces) ==
    IF ~HasMask(file) THEN forces
    ELSE [shape |-> forces.shape,
          v |-> [s \in 1..forces.shape[1] |->
                  [a \in 1..forces.shape[2] |->
                    [x \in 1..forces.shape[3] |->
                      IF (a - 1) \in PosMask(file.mask) THEN 0
                      ELSE forces.v[s][a][x]]]]]

(***************************************************************************)
(* VASPData.__init__ (data.py) and the same formulas in                    *)
(* VaspOptData.make_graph (main.py).  An object is a record whose domain   *)
(* is the set of attributes assigned so far.                               *)
(***************************************************************************)
\* lines 18-21: the four main quantities
RawObject(raw) ==
    [cls             |-> "VASPData",
     energies        |-> raw.energies,
     forces          |-> raw.forces,
     positions       |-> raw.positions,
     lattice_vectors |-> raw.lattice_vectors]

\* (mutant) energies - energies[0]
delta_e_FromFirst(energies) ==
    [i \in 1..Len(energies) |-> energies[i] - energies[1]]

\* energies[1:] - energies[:-1]
delta_e(energies) ==
    [i \in 1..(IF Len(energies) = 0 THEN 0 ELSE Len(energies) - 1) |->
        energies[i + 1] - energies[i]]

\* numpy.linalg.norm(a, axis=2) of an array of integers of rank 3
Intensities(a) ==
    [s \in 1..a.shape[1] |->
      [j \in 1..a.shape[2] |->
        Norm([x \in 1..a.shape[3] |-> FromInt(a.v[s][j][x])])]]

\* positions[1:] - positions[:-1]: each entry a float
displacements(positions) ==
    [s \in 1..(IF positions.shape[1] = 0 THEN 0 ELSE positions.shape[1] - 1) |->
      [j \in 1..positions.shape[2] |->
        [x \in 1..positions.shape[3] |->
          FromInt(positions.v[s + 1][j][x] - positions.v[s][j][x])]]]

\* numpy.linalg.norm(d, axis=2) of the displacements
DispIntensities(d) == [s \in DOMAIN d |-> [j \in DOMAIN d[s] |-> Norm(d[s][j])]]

\* numpy.sqrt(numpy.mean(x ** 2, axis=1))
RmsRows(x) == [s \in DOMAIN x |-> Rms(x[s])]

\* numpy.max(x, axis=1)
MaxRows(x) == [s \in DOMAIN x |-> FMaxSeq(x[s])]

\* lines 24-37: the exception they raise.  numpy.min of no energy and
\* numpy.max over no atom are ValueError (no identity); numpy.linalg.det of
\* a matrix that is not square is LinAlgError, a ValueError.
DeriveExc(raw) ==
    IF raw.energies.shape[1] = 0 THEN "ValueError"
    ELSE IF raw.forces.shape[2] = 0 THEN "ValueError"
    ELSE IF raw.positions.shape[2] = 0 THEN "ValueError"
    ELSE IF raw.lattice_vectors.shape[1] > 0
            /\ raw.lattice_vectors.shape[2] # raw.lattice_vectors.shape[3]
         THEN "LinAlgError"
    ELSE NoExc

\* lines 24-37: the derived quantities, added to the object
Derived(obj) ==
    LET fi == Intensities(obj.forces)
        d  == displacements(obj.positions)
        di == DispIntensities(d)
    IN  [cls                      |-> "VASPData",
         energies                 |-> obj.energies,
         forces                   |-> obj.forces,
         positions                |-> obj.positions,
         lattice_vectors          |-> obj.lattice_vectors,
         min_energy               |-> SeqMin(obj.energies.v),
         delta_e                  |-> delta_e(obj.energies.v),
         force_intensities        |-> fi,
         forces_rms               |-> RmsRows(fi),
         forces_max               |-> MaxRows(fi),
         displacements            |-> d,
         displacement_intensities |-> di,
         displacements_rms        |-> RmsRows(di),
         displacements_max        |-> MaxRows(di),
         lattice_vectors_norm     |-> Intensities(obj.lattice_vectors),
         cell_volumes             |-> [s \in 1..obj.lattice_vectors.shape[1] |->
                                          Det(obj.lattice_vectors.v[s])]]

VASPDataAttrs == DOMAIN Derived(RawObject(
    [energies |-> [shape |-> <<1>>, v |-> <<0>>],
     forces |-> Arr3(1, 1, 3, LAMBDA s, a, x : 0),
     positions |-> Arr3(1, 1, 3, LAMBDA s, a, x : 0),
     lattice_vectors |-> Arr3(1, 3, 3, LAMBDA s, a, x : 0)]))

(***************************************************************************)
(* VASPData.make_graphs (data.py: 62-134).  Axes.plot(x, y) raises         *)
(* ValueError when x and y differ in length, positions[0] and              *)
(* lattice_vectors_norm[:, 2] raise IndexError when the index is out of    *)
(* range.  None of them is raised inside load_data's try.                  *)
(***************************************************************************)
\* lines 100-102: sum over the atoms of |positions[i] - positions[0]|
ddisps_sum(positions) ==
    [s \in 1..(positions.shape[1] - 1) |->
      FSum([j \in 1..positions.shape[2] |->
        Norm([x \in 1..positions.shape[3] |->
          FromInt(positions.v[s + 1][j][x] - positions.v[1][j][x])])])]

make_graphs_exc(obj) ==
    LET N == obj.energies.shape[1]
    IN  IF Len(obj.forces_rms) # N THEN "ValueError"
        ELSE IF obj.positions.shape[1] = 0 THEN "IndexError"
        ELSE IF Len(obj.displacements_rms) # N - 1 THEN "ValueError"
        ELSE IF obj.lattice_vectors.shape[2] < 1 THEN "IndexError"
        ELSE IF obj.lattice_vectors.shape[1] # N THEN "ValueError"
        ELSE IF obj.lattice_vectors.shape[2] < 3 THEN "IndexError"
        ELSE NoExc

(***************************************************************************)
(* VaspOptData (main.py): the object holds the three raw arrays, and       *)
(* make_graph computes the series it plots.                                *)
(***************************************************************************)
\* main.py: lines 35-37
RawObjectMain(raw) ==
    [cls       |-> "VaspOptData",
     energies  |-> raw.energies,
     forces    |-> raw.forces,
     positions |-> raw.positions]

VaspOptDataAttrs == {"cls", "energies", "forces", "positions"}

\* main.py: lines 59-120, the exception they raise
make_graph_exc(obj) ==
    LET N == obj.energies.shape[1]
    IN  IF obj.energies.shape[2] <= energy_label THEN "IndexError"
        ELSE IF N = 0 THEN "ValueError"
        ELSE IF obj.forces.shape[2] = 0 THEN "ValueError"
        ELSE IF obj.positions.shape[2] = 0 THEN "ValueError"
        ELSE IF obj.positions.shape[1] = 0 THEN "IndexError"
        ELSE IF obj.forces.shape[1] # N THEN "ValueError"
        ELSE IF obj.positions.shape[1] # N THEN "ValueError"
        ELSE NoExc

\* the series a figure plots (main.py: 59-74; data.py: 77-130)
Series(dE, f_rms, f_max, d_rms, d_max, dd_sum) ==
    [dE                |-> dE,
     forces_rms        |-> f_rms,
     forces_max        |-> f_max,
     displacements_rms |-> d_rms,
     displacements_max |-> d_max,
     ddisps_sum        |-> dd_sum]

NoSeries == Series(<<>>, <<>>, <<>>, <<>>, <<>>, <<>>)

make_graphs(obj) ==
    Series(obj.delta_e, obj.forces_rms, obj.forces_max,
           obj.displacements_rms, obj.displacements_max,
           ddisps_sum(obj.positions))

make_graph(obj) ==
    LET fi == Intensities(obj.forces)
        di == DispIntensities(displacements(obj.positions))
    IN  Series(delta_e(Column(obj.energies, energy_label).v),
               RmsRows(fi), MaxRows(fi), RmsRows(di), MaxRows(di),
               ddisps_sum(obj.positions))

(***************************************************************************)
(* The files the model opens.                                              *)
(***************************************************************************)
MaxSteps == 3
MaxAtoms == 3

AllData == {"energies", "forces", "position_ions", "lattice_vectors"}

File(exists, group, has, en, fo, po, la, ma) ==
    [exists |-> exists, group |-> group, has |-> has,
     energies |-> en, forces |-> fo, position_ions |-> po,
     lattice_vectors |-> la, mask |-> ma]

\* default contents: three energy columns, forces never zero, atoms that
\* move at every step, a cubic cell that grows
Energies(n, c)   == Arr2(n, c, LAMBDA i, j : 3 * j - i * i)
Forces(n, a, k)  == Arr3(n, a, k, LAMBDA s, j, x : s + j + x)
Positions(n, a, k) == Arr3(n, a, k, LAMBDA s, j, x : s * j + x)
Lattice(n, r, k) == Arr3(n, r, k, LAMBDA s, v, x : IF v = x THEN 2 + s ELSE 0)

Plain(n, a) ==
    File(TRUE, TRUE, AllData, Energies(n, 3), Forces(n, a, 3),
         Positions(n, a, 3), Lattice(n, 3, 3), NoArray)

\* one array off the shape the others have
Deviations ==
    {"none", "energies_steps", "forces_steps", "positions_steps",
     "lattice_steps", "forces_atoms", "positions_atoms", "forces_axes",
     "lattice_2x2", "lattice_3x2", "energies_1col"}

Deviant(n, a, dev) ==
    File(TRUE, TRUE, AllData,
         Energies(IF dev = "energies_steps" THEN n + 1 ELSE n,
                  IF dev = "energies_1col" THEN 1 ELSE 3),
         Forces(IF dev = "forces_steps" THEN n + 1 ELSE n,
                IF dev = "forces_atoms" THEN a + 1 ELSE a,
                IF dev = "forces_axes" THEN 2 ELSE 3),
         Positions(IF dev = "positions_steps" THEN n + 1 ELSE n,
                   IF dev = "positions_atoms" THEN a + 1 ELSE a, 3),
         Lattice(IF dev = "lattice_steps" THEN n + 1 ELSE n,
                 IF dev = "lattice_2x2" THEN 2 ELSE 3,
                 IF dev \in {"lattice_2x2", "lattice_3x2"} THEN 2 ELSE 3),
         NoArray)

ShapeFiles ==
    {Deviant(n, a, dev) : n \in 0..MaxSteps, a \in 0..MaxAtoms, dev \in Deviations}

\* a selective-dynamics mask of am atoms, at most MaxFrozen entries frozen
MaxFrozen == 2

Masks(am) ==
    {mk \in [(1..am) \X (1..3) -> {0, 1}] :
        Cardinality({ix \in DOMAIN mk : mk[ix] = 0}) <= MaxFrozen}

WithMask(f, am, mk) ==
    [f EXCEPT !.has = @ \cup {"selective_dynamics_ions"},
              !.mask = Arr2(am, 3, LAMBDA i, j : mk[<<i, j>>])]

MaskFiles ==
    UNION {{WithMask(Plain(2, a), am, mk) : a \in 1..MaxAtoms, mk \in Masks(am)} :
            am \in 1..MaxAtoms}

\* a single step of one atom, with a mask
SingleStepFiles == {WithMask(Plain(1, 1), 1, mk) : mk \in Masks(1)}

\* the values of the forces and of the moves: every atom a pulled along x
\* by c[a] at step 1 and along x and y at step 2, and moved by as much
Pulls == {0, 3, 7}

Pulled(a, c) ==
    [Plain(2, a) EXCEPT
        !.forces = Arr3(2, a, 3, LAMBDA s, j, x :
                        IF x = 1 THEN c[j] ELSE IF x = 2 /\ s = 2 THEN 4 ELSE 0),
        !.position_ions = Arr3(2, a, 3, LAMBDA s, j, x :
                        IF s = 2 /\ x = 1 THEN c[j] ELSE 0)]

ValueFiles == UNION {{Pulled(a, c) : c \in [1..a -> Pulls]} : a \in 1..MaxAtoms}

\* the values of the energies: column energy_label holds e, the others differ
Levels == {-2, 0, 5}

Leveled(n, e) ==
    [Plain(n, 1) EXCEPT
        !.energies = Arr2(n, 3, LAMBDA i, j :
                        IF j = 1 THEN -e[i] ELSE IF j = 2 THEN e[i] ELSE e[i] + 1)]

EnergyFiles == UNION {{Leveled(n, e) : e \in [1..n -> Levels]} : n \in 1..MaxSteps}

\* no file, no group, datasets missing
MissingFiles ==
    {[Plain(2, 1) EXCEPT !.exists = FALSE], [Plain(2, 1) EXCEPT !.group = FALSE]}
    \cup {[Plain(2, 1) EXCEPT !.has = h] : h \in (SUBSET AllData) \ {AllData}}

DataPaths ==
    ShapeFiles \cup MaskFiles \cup SingleStepFiles \cup ValueFiles \cup EnergyFiles
    \cup MissingFiles

\* the files of the runs with several windows, one for each way load_data
\* goes: a good file, a file without its forces (KeyError, caught), a table
\* of energies with one column (IndexError, not caught) and a file without
\* atoms (ValueError raised by the constructor, caught)
Paths ==
    {Plain(2, 1),
     [Plain(2, 1) EXCEPT !.has = AllData \ {"forces"}],
     Deviant(2, 1, "energies_1col"),
     Deviant(2, 0, "none")}

(***************************************************************************)
(* GraphWindow.make_notebook_page_data (windows.py: 85-125): one row of    *)
(* the ListStore for each i in range(data.N).                              *)
(***************************************************************************)
\* line 107: data.N
make_notebook_page_data_exc(data) ==
    IF "N" \in DOMAIN data THEN NoExc ELSE "AttributeError"

\* lines 107-114: the rows appended, in order; None is the blank cell
make_notebook_page_data(data) ==
    [r \in 1..data.N |->
        LET i == r - 1
        IN  [index             |-> i,
             energy            |-> data.energies.v[i + 1],
             delta_e           |-> IF i > 0 THEN data.delta_e[i] ELSE None,
             forces_max        |-> data.forces_max[i + 1],
             forces_rms        |-> data.forces_rms[i + 1],
             displacements_max |-> IF i > 0 THEN data.displacements_max[i] ELSE None,
             displacements_rms |-> IF i > 0 THEN data.displacements_rms[i] ELSE None,
             a                 |-> data.lattice_vectors_norm[i + 1][1],
             b                 |-> data.lattice_vectors_norm[i + 1][2],
             c                 |-> data.lattice_vectors_norm[i + 1][3],
             volume            |-> data.cell_volumes[i + 1]]]

(***************************************************************************)
(* The program.  A GraphWindow w is created by AppWindow.open_vasp_h5 and  *)
(* starts a worker thread running load_data; the UI thread runs the GLib   *)
(* main loop, which dispatches the idle callbacks and the dialog's         *)
(* response.                                                               *)
(***************************************************************************)
MaxWindows == 2

Windows == 1..MaxWindows

VARIABLES
    variant,    \* "windows": windows.py + data.py; "main": main.py
    win,        \* win[w]: "none" (not created), "shown", "destroyed"
    file,       \* file[w]: the file at the path given to the window
    child,      \* child[w]: the window's child, "placeholder" or "result"
    opt_data,   \* opt_data[w]: GraphWindow.opt_data
    pc,         \* pc[w]: where the worker thread is in load_data
    handle,     \* handle[w]: the h5py.File of from_h5, "closed" or "open"
    raw,        \* raw[w]: from_h5's local arrays
    obj,        \* obj[w]: the object cls(...) is building
    exc,        \* exc[w]: the exception raised in the worker
    fig,        \* fig[w]: the series of the figures made
    idle,       \* the callbacks given to GLib.idle_add, not yet dispatched
    event,      \* event[w]: the threading.Event of the hand-off is set
    dialog,     \* dialog[w]: the error MessageDialog, "none", "shown", "destroyed"
    table       \* table[w]: the rows of the ListStore of the 'Data' page

vars == <<variant, win, file, child, opt_data, pc, handle, raw, obj, exc, fig,
          idle, event, dialog, table>>

\* no ListStore yet
NoTable == <<>>

NoRaw == [energies |-> NoArray, forces |-> NoArray, positions |-> NoArray,
          lattice_vectors |-> NoArray]

Init ==
    /\ variant \in {"windows", "main"}
    /\ win = [w \in Windows |-> "none"]
    /\ file = [w \in Windows |-> [Plain(0, 0) EXCEPT !.exists = FALSE]]
    /\ child = [w \in Windows |-> "none"]
    /\ opt_data = [w \in Windows |-> None]
    /\ pc = [w \in Windows |-> "none"]
    /\ handle = [w \in Windows |-> "closed"]
    /\ raw = [w \in Windows |-> NoRaw]
    /\ obj = [w \in Windows |-> None]
    /\ exc = [w \in Windows |-> NoExc]
    /\ fig = [w \in Windows |-> NoSeries]
    /\ idle = <<>>
    /\ event = [w \in Windows |-> FALSE]
    /\ dialog = [w \in Windows |-> "none"]
    /\ table = [w \in Windows |-> NoTable]

\* AppWindow.open_vasp_h5 -> GraphWindow.__init__: the placeholder label,
\* opt_data = None, the thread started; then present()
open_vasp_h5(w, f) ==
    /\ win[w] = "none"
    /\ \A v \in Windows : v < w => win[v] # "none"
    /\ win' = [win EXCEPT ![w] = "shown"]
    /\ file' = [file EXCEPT ![w] = f]
    /\ child' = [child EXCEPT ![w] = "placeholder"]
    /\ opt_data' = [opt_data EXCEPT ![w] = None]
    /\ pc' = [pc EXCEPT ![w] = "open"]
    /\ UNCHANGED <<variant, table, handle, raw, obj, exc, fig, idle, event, dialog>>

\* an exception leaves from_h5: the with block closes the file
Raise(w, e) ==
    /\ exc' = [exc EXCEPT ![w] = e]
    /\ handle' = [handle EXCEPT ![w] = "closed"]
    /\ pc' = [pc EXCEPT ![w] = "raised"]

\* with h5py.File(path, 'r') as f
h5_open(w) ==
    /\ pc[w] = "open"
    /\ IF file[w].exists
       THEN /\ handle' = [handle EXCEPT ![w] = "open"]
            /\ pc' = [pc EXCEPT ![w] = "read"]
            /\ exc' = exc
       ELSE Raise(w, "OSError")
    /\ UNCHANGED <<variant, table, win, file, child, opt_data, raw, obj, fig, idle,
                   event, dialog>>

\* the datasets read into local arrays
read(w) ==
    /\ pc[w] = "read"
    /\ LET e == IF variant = "windows" THEN ReadExc(file[w]) ELSE ReadExcMain(file[w])
       IN  IF e = NoExc
           THEN /\ raw' = [raw EXCEPT ![w] = IF variant = "windows"
                                             THEN ReadRaw(file[w])
                                             ELSE ReadRawMain(file[w])]
                /\ pc' = [pc EXCEPT ![w] = "mask"]
                /\ UNCHANGED <<exc, handle>>
           ELSE Raise(w, e) /\ raw' = raw
    /\ UNCHANGED <<variant, table, win, file, child, opt_data, obj, fig, idle, event, dialog>>

\* if '/input/poscar/selective_dynamics_ions' in f: forces[:, pos_mask] = .0
mask(w) ==
    /\ pc[w] = "mask"
    /\ LET e == MaskExc(file[w], raw[w].forces)
       IN  IF e = NoExc
           THEN /\ raw' = [raw EXCEPT ![w].forces = MaskedForces(file[w], @)]
                /\ pc' = [pc EXCEPT ![w] = "init"]
                /\ UNCHANGED <<exc, handle>>
           ELSE Raise(w, e) /\ raw' = raw
    /\ UNCHANGED <<variant, table, win, file, child, opt_data, obj, fig, idle, event, dialog>>

\* (mutant) the window is given the object before it is complete
init_Exposing(w) ==
    /\ pc[w] = "init"
    /\ obj' = [obj EXCEPT ![w] = IF variant = "windows" THEN RawObject(raw[w])
                                 ELSE RawObjectMain(raw[w])]
    /\ opt_data' = [opt_data EXCEPT ![w] = obj'[w]]
    /\ pc' = [pc EXCEPT ![w] = IF variant = "windows" THEN "derive" ELSE "return"]
    /\ UNCHANGED <<variant, table, win, file, child, handle, raw, exc, fig,
                   idle, event, dialog>>

\* cls(...): __init__ stores the main quantities
init(w) ==
    /\ pc[w] = "init"
    /\ obj' = [obj EXCEPT ![w] = IF variant = "windows" THEN RawObject(raw[w])
                                 ELSE RawObjectMain(raw[w])]
    /\ pc' = [pc EXCEPT ![w] = IF variant = "windows" THEN "derive" ELSE "return"]
    /\ UNCHANGED <<variant, table, win, file, child, opt_data, handle, raw, exc, fig,
                   idle, event, dialog>>

\* VASPData.__init__ computes the derived quantities (inside the with block)
derive(w) ==
    /\ pc[w] = "derive"
    /\ LET e == DeriveExc(raw[w])
       IN  IF e = NoExc
           THEN /\ obj' = [obj EXCEPT ![w] = Derived(@)]
                /\ pc' = [pc EXCEPT ![w] = "return"]
                /\ UNCHANGED <<exc, handle>>
           ELSE Raise(w, e) /\ obj' = [obj EXCEPT ![w] = None]
    /\ UNCHANGED <<variant, table, win, file, child, opt_data, raw, fig, idle, event, dialog>>

\* (mutant) the file is not closed on return
return_Open(w) ==
    /\ pc[w] = "return"
    /\ opt_data' = [opt_data EXCEPT ![w] = obj[w]]
    /\ pc' = [pc EXCEPT ![w] = "graphs"]
    /\ UNCHANGED <<variant, table, win, file, child, handle, raw, obj, exc, fig, idle,
                   event, dialog>>

\* return cls(...): the with block closes the file, load_data assigns
\* self.opt_data
return(w) ==
    /\ pc[w] = "return"
    /\ handle' = [handle EXCEPT ![w] = "closed"]
    /\ opt_data' = [opt_data EXCEPT ![w] = obj[w]]
    /\ pc' = [pc EXCEPT ![w] = "graphs"]
    /\ UNCHANGED <<variant, table, win, file, child, raw, obj, exc, fig, idle, event, dialog>>

\* except (OSError, KeyError, ValueError, VASPDataError): make_error gives
\* its callback to GLib.idle_add; any other exception ends the thread
except(w) ==
    /\ pc[w] = "raised"
    /\ IF exc[w] \in Caught
       THEN /\ idle' = Append(idle, [w |-> w, fn |-> "show_error"])
            /\ pc' = [pc EXCEPT ![w] = "wait_error"]
       ELSE /\ idle' = idle
            /\ pc' = [pc EXCEPT ![w] = "dead"]
    /\ UNCHANGED <<variant, table, win, file, child, opt_data, handle, raw, obj, exc,
                   fig, event, dialog>>

\* make_graphs() / make_graph(): outside the try, an exception ends the thread
graphs(w) ==
    /\ pc[w] = "graphs"
    /\ LET e == IF variant = "windows" THEN make_graphs_exc(opt_data[w])
                ELSE make_graph_exc(opt_data[w])
       IN  IF e = NoExc
           THEN /\ fig' = [fig EXCEPT ![w] = IF variant = "windows"
                                             THEN make_graphs(opt_data[w])
                                             ELSE make_graph(opt_data[w])]
                /\ pc' = [pc EXCEPT ![w] = IF variant = "windows" THEN "notebook"
                                           ELSE "set_child"]
                /\ exc' = exc
           ELSE /\ exc' = [exc EXCEPT ![w] = e]
                /\ pc' = [pc EXCEPT ![w] = "dead"]
                /\ fig' = fig
    /\ UNCHANGED <<variant, table, win, file, child, opt_data, handle, raw, obj, idle,
                   event, dialog>>

\* windows.py 65-68: the notebook's pages; make_notebook_page_data reads
\* data.N, an attribute VASPData does not have: AttributeError
notebook(w) ==
    /\ pc[w] = "notebook"
    /\ LET e == make_notebook_page_data_exc(opt_data[w])
       IN  IF e = NoExc
           THEN /\ table' = [table EXCEPT ![w] = make_notebook_page_data(opt_data[w])]
                /\ pc' = [pc EXCEPT ![w] = "set_child"]
                /\ exc' = exc
           ELSE /\ table' = table
                /\ pc' = [pc EXCEPT ![w] = "dead"]
                /\ exc' = [exc EXCEPT ![w] = e]
    /\ UNCHANGED <<variant, win, file, child, opt_data, handle, raw, obj, fig,
                   idle, event, dialog>>

\* set_child(child): its callback given to GLib.idle_add
set_child(w) ==
    /\ pc[w] = "set_child"
    /\ idle' = Append(idle, [w |-> w, fn |-> "set_child"])
    /\ pc' = [pc EXCEPT ![w] = "wait_child"]
    /\ UNCHANGED <<variant, table, win, file, child, opt_data, handle, raw, obj, exc,
                   fig, event, dialog>>

\* (mutant) the worker goes on without waiting for the event
wait_Unblocked(w) ==
    /\ pc[w] \in {"wait_error", "wait_child"}
    /\ pc' = [pc EXCEPT ![w] = IF pc[w] = "wait_error" THEN "failed" ELSE "done"]
    /\ UNCHANGED <<variant, table, win, file, child, opt_data, handle, raw, obj, exc,
                   fig, idle, event, dialog>>

\* event.wait() returns once the callback has set the event; load_data ends
wait(w) ==
    /\ pc[w] \in {"wait_error", "wait_child"}
    /\ event[w]
    /\ pc' = [pc EXCEPT ![w] = IF pc[w] = "wait_error" THEN "failed" ELSE "done"]
    /\ UNCHANGED <<variant, table, win, file, child, opt_data, handle, raw, obj, exc,
                   fig, idle, event, dialog>>

\* the main loop dispatches the oldest idle callback, do_event, once:
\* show_error presents the MessageDialog, or set_child replaces the child;
\* then event.set()
do_event ==
    /\ idle # <<>>
    /\ LET w == Head(idle).w
       IN  /\ IF Head(idle).fn = "show_error"
              THEN /\ dialog' = [dialog EXCEPT ![w] = "shown"]
                   /\ child' = child
              ELSE /\ child' = [child EXCEPT ![w] = "result"]
                   /\ dialog' = dialog
           /\ event' = [event EXCEPT ![w] = TRUE]
    /\ idle' = Tail(idle)
    /\ UNCHANGED <<variant, table, win, file, opt_data, pc, handle, raw, obj, exc, fig>>

\* (mutant) only the dialog is destroyed
on_error_dialog_response_KeepsWindow(w) ==
    /\ dialog[w] = "shown"
    /\ dialog' = [dialog EXCEPT ![w] = "destroyed"]
    /\ UNCHANGED <<variant, table, win, file, child, opt_data, pc, handle, raw, obj, exc,
                   fig, idle, event>>

\* the user answers the error dialog: dialog.destroy(); self.destroy()
on_error_dialog_response(w) ==
    /\ dialog[w] = "shown"
    /\ dialog' = [dialog EXCEPT ![w] = "destroyed"]
    /\ win' = [win EXCEPT ![w] = "destroyed"]
    /\ UNCHANGED <<variant, table, file, child, opt_data, pc, handle, raw, obj, exc,
                   fig, idle, event>>

NextOn(W, F) ==
    \/ \E w \in W, f \in F : open_vasp_h5(w, f)
    \/ \E w \in W : h5_open(w)
    \/ \E w \in W : read(w)
    \/ \E w \in W : mask(w)
    \/ \E w \in W : init(w)
    \/ \E w \in W : derive(w)
    \/ \E w \in W : return(w)
    \/ \E w \in W : except(w)
    \/ \E w \in W : graphs(w)
    \/ \E w \in W : notebook(w)
    \/ \E w \in W : set_child(w)
    \/ \E w \in W : wait(w)
    \/ do_event
    \/ \E w \in W : on_error_dialog_response(w)

\* several windows, one file of each outcome
Next == NextOn(Windows, Paths)

Spec == Init /\ [][Next]_vars

\* one window, every file of the model
NextData == NextOn({1}, DataPaths)

SpecData == Init /\ [][NextData]_vars

(***************************************************************************)
(* Properties.                                                             *)
(***************************************************************************)
Opened == {w \in Windows : win[w] # "none"}

\* the container opens and holds the group and the four datasets
Readable(f) == f.exists /\ f.group /\ AllData \subseteq f.has

\* the shape invariants of the data model
ValidShapes(f) ==
    /\ Readable(f)
    /\ f.energies.shape[1] >= 1
    /\ f.energies.shape[2] > energy_label
    /\ f.forces.shape[1] = f.energies.shape[1]
    /\ f.forces.shape[2] >= 1
    /\ f.forces.shape[3] = 3
    /\ f.position_ions.shape = f.forces.shape
    /\ f.lattice_vectors.shape = <<f.energies.shape[1], 3, 3>>
    /\ HasMask(f) => f.mask.shape = <<f.forces.shape[2], 3>>

\* from_h5 has returned a record to load_data
Loaded(w) == opt_data[w] # None

\* C1: with a mask in the file, the forces of the loaded record are zero
\* exactly at the (atom, axis) pairs the mask freezes and the file's values
\* elsewhere, and the mask never makes the load fail; without a mask the
\* forces are the file's.
C1_OnlyFrozenPairsZeroed ==
    \A w \in Opened :
        ValidShapes(file[w]) =>
            /\ ~(pc[w] \in {"raised", "dead"} /\ raw[w] # NoRaw /\ obj[w] = None)
            /\ Loaded(w) =>
                 \A s \in 1..file[w].forces.shape[1], a \in 1..file[w].forces.shape[2],
                    x \in 1..3 :
                     opt_data[w].forces.v[s][a][x] =
                        IF HasMask(file[w]) /\ file[w].mask.v[a][x] = 0 THEN 0
                        ELSE file[w].forces.v[s][a][x]

\* the worker thread of w has ended
Ended(w) == pc[w] \in {"done", "failed", "dead"}

\* C2: a load whose worker has ended has handed over exactly one outcome:
\* the result view has replaced the placeholder, or an error notice was
\* shown; no worker ends with the window still on the placeholder.
C2_EndedWithOneOutcome ==
    \A w \in Opened :
        Ended(w) => (child[w] = "result") # (dialog[w] # "none")

\* a fully constructed record: every attribute of its class is assigned
\* (the raw arrays, masked, and every derived series), it is the object the
\* constructor has finished, and from_h5 has returned
Complete(w) ==
    /\ DOMAIN opt_data[w] = IF variant = "windows" THEN VASPDataAttrs
                            ELSE VaspOptDataAttrs
    /\ opt_data[w].energies = IF variant = "windows"
                              THEN Column(file[w].energies, energy_label)
                              ELSE file[w].energies
    /\ opt_data[w].forces = MaskedForces(file[w], file[w].forces)
    /\ opt_data[w].positions = file[w].position_ions
    /\ variant = "windows" => opt_data[w].lattice_vectors = file[w].lattice_vectors
    /\ opt_data[w] = obj[w]
    /\ pc[w] \notin {"open", "read", "mask", "init", "derive", "return", "raised"}

\* C3: in every state, what the window shows of the load is nothing (None,
\* the placeholder) or a fully constructed record; a record under
\* construction is never visible.
C3_NoPartialRecordVisible ==
    \A w \in Opened :
        /\ Loaded(w) => Complete(w)
        /\ child[w] = "result" => Loaded(w) /\ Complete(w) /\ fig[w] # NoSeries

\* a record is under construction in one window while another shows one
C3_Witness ==
    \E w, v \in Opened :
        /\ variant = "windows"
        /\ pc[w] = "derive" /\ obj[w] # None /\ ~Loaded(w)
        /\ Loaded(v) /\ Complete(v)

\* C4: a file whose arrays break the shape invariants yields no record.
C4_ShapeViolationRejected ==
    \A w \in Opened :
        (variant = "windows" /\ Readable(file[w]) /\ ~ValidShapes(file[w]))
            => ~Loaded(w) /\ pc[w] # "dead"

\* the datasets load_data's from_h5 needs
Required == IF variant = "windows" THEN AllData ELSE AllData \ {"lattice_vectors"}

Unreadable(f) == ~f.exists \/ ~f.group \/ ~(Required \subseteq f.has)

Failed(w) == exc[w] # NoExc

\* what the worker thread of w owns
Worker(w) == <<pc[w], opt_data[w], handle[w], raw[w], obj[w], exc[w], fig[w]>>

\* C6: after a failed load the result view is never the window's child;
\* once the worker has reported the error it takes no further step and
\* schedules nothing more; and the user's answer to the notice destroys the
\* notice and the window.
C6_FailedLoadDiscarded ==
    /\ [](\A w \in Windows : Failed(w) => child[w] # "result")
    /\ [][\A w \in Windows :
            /\ pc[w] \in {"failed", "dead"} =>
                  /\ Worker(w)' = Worker(w)
                  /\ \A i \in DOMAIN idle' : idle'[i].w = w =>
                        \E j \in DOMAIN idle : idle[j] = idle'[i]
            /\ pc[w] = "wait_error" => pc'[w] \in {"wait_error", "failed"}
            /\ (dialog[w] = "shown" /\ dialog'[w] # "shown") =>
                  dialog'[w] = "destroyed" /\ win'[w] = "destroyed"
            /\ (Failed(w) /\ win'[w] = "destroyed") => child'[w] = "placeholder"
       ]_vars

C6_Witness ==
    \E w \in Opened :
        /\ pc[w] = "failed" /\ exc[w] = "KeyError"
        /\ dialog[w] = "destroyed" /\ win[w] = "destroyed"
        /\ child[w] = "placeholder"

\* the derived series of w exist: in the object, or in a figure
DerivedComputed(w) == "forces_rms" \in DOMAIN obj[w] \/ fig[w] # NoSeries

\* C7 as claimed: no derived series is computed while the file is open.
C7_ClosedBeforeDerived ==
    \A w \in Opened : DerivedComputed(w) => handle[w] = "closed"

\* C7, amended: the file is open only inside from_h5; it is read in full
\* before the derived quantities are computed, and closed before the record
\* reaches load_data (opt_data) and before any figure is made.  (data.py
\* computes the derived quantities in the constructor, inside the with
\* block.)
C7_ReadBeforeDerivedClosedBeforeReturn ==
    \A w \in Opened :
        /\ handle[w] = "open" <=> pc[w] \in {"read", "mask", "init", "derive", "return"}
        /\ DerivedComputed(w) =>
              raw[w] = [(IF variant = "windows" THEN ReadRaw(file[w])
                         ELSE ReadRawMain(file[w]))
                        EXCEPT !.forces = MaskedForces(file[w], @)]
        /\ Loaded(w) => handle[w] = "closed"
        /\ fig[w] # NoSeries => handle[w] = "closed"

\* the derived series of a record exist while its file is still open, then
\* the record is returned
C7_Witness ==
    \E w, v \in Opened :
        /\ variant = "windows"
        /\ pc[w] = "return" /\ "forces_rms" \in DOMAIN obj[w] /\ handle[w] = "open"
        /\ Loaded(v) /\ fig[v] # NoSeries /\ handle[v] = "closed"

\* the lengths of the series of a figure for n steps
SeriesLengths(f, n) ==
    /\ Len(f.forces_rms) = n /\ Len(f.forces_max) = n
    /\ Len(f.dE) = n - 1
    /\ Len(f.displacements_rms) = n - 1 /\ Len(f.displacements_max) = n - 1
    /\ Len(f.ddisps_sum) = n - 1

\* C8: for a valid trajectory of N >= 1 steps, every per-step series has
\* length N and every per-transition series has length N - 1.
C8_SeriesLengths ==
    \A w \in Opened :
        LET N == file[w].energies.shape[1]
            d == opt_data[w]
        IN  ValidShapes(file[w]) =>
              /\ (variant = "windows" /\ Loaded(w)) =>
                    /\ Len(d.force_intensities) = N
                    /\ Len(d.forces_rms) = N /\ Len(d.forces_max) = N
                    /\ Len(d.lattice_vectors_norm) = N
                    /\ Len(d.cell_volumes) = N
                    /\ Len(d.delta_e) = N - 1
                    /\ Len(d.displacements) = N - 1
                    /\ Len(d.displacement_intensities) = N - 1
                    /\ Len(d.displacements_rms) = N - 1
                    /\ Len(d.displacements_max) = N - 1
              /\ fig[w] # NoSeries => SeriesLengths(fig[w], N)

C8_Witness ==
    \E w \in Opened :
        /\ variant = "windows" /\ ValidShapes(file[w])
        /\ file[w].energies.shape[1] = 3 /\ file[w].forces.shape[2] = 2
        /\ Loaded(w) /\ Len(opt_data[w].delta_e) = 2
        /\ Len(fig[w].ddisps_sum) = 2

\* max >= rms >= 0 on every entry of two series of floats
Dominates(mx, rms) ==
    /\ DOMAIN mx = DOMAIN rms
    /\ \A i \in DOMAIN rms : rms[i].m >= 0 /\ FLeq(rms[i], mx[i])

\* C9: forces_max[i] >= forces_rms[i] >= 0 at every step and
\* displacements_max[j] >= displacements_rms[j] >= 0 at every transition.
C9_MaxDominatesRms ==
    \A w \in Opened :
        /\ (variant = "windows" /\ Loaded(w)) =>
              /\ Dominates(opt_data[w].forces_max, opt_data[w].forces_rms)
              /\ Dominates(opt_data[w].displacements_max, opt_data[w].displacements_rms)
        /\ fig[w] # NoSeries =>
              /\ Dominates(fig[w].forces_max, fig[w].forces_rms)
              /\ Dominates(fig[w].displacements_max, fig[w].displacements_rms)

\* C10: the record's energies are the column energy_label of the file's
\* table; min_energy is their minimum and delta_e[i] the difference of
\* energies i + 1 and i.
C10_EnergyColumn ==
    \A w \in Opened :
        (variant = "windows" /\ Loaded(w)) =>
            LET d == opt_data[w]
                t == file[w].energies
                N == t.shape[1]
            IN  /\ d.energies.shape = <<N>>
                /\ \A i \in 1..N : d.energies.v[i] = t.v[i][energy_label + 1]
                /\ \E i \in 1..N : d.min_energy = t.v[i][energy_label + 1]
                /\ \A i \in 1..N : d.min_energy <= t.v[i][energy_label + 1]
                /\ DOMAIN d.delta_e = 1..(N - 1)
                /\ \A i \in 1..(N - 1) :
                      d.delta_e[i] = t.v[i + 1][energy_label + 1] - t.v[i][energy_label + 1]

\* three steps whose lowest energy is the middle one
C10_Witness ==
    \E w \in Opened :
        /\ variant = "windows" /\ Loaded(w)
        /\ opt_data[w].energies.v = <<5, -2, 0>>
        /\ opt_data[w].min_energy = -2
        /\ opt_data[w].delta_e = <<-7, 2>>

\* C11: a single step (N = 1, at least one atom) loads and is plotted
\* without an exception: from_h5, the constructor and the figures raise
\* nothing; the per-transition series are empty and the per-step series have
\* one entry.
C11_SingleStepSucceeds ==
    \A w \in Opened :
        (ValidShapes(file[w]) /\ file[w].energies.shape[1] = 1) =>
            /\ pc[w] # "raised"
            /\ exc[w] # NoExc => fig[w] # NoSeries
            /\ (variant = "windows" /\ Loaded(w)) =>
                  /\ opt_data[w].delta_e = <<>>
                  /\ opt_data[w].displacements_rms = <<>>
                  /\ opt_data[w].displacements_max = <<>>
                  /\ Len(opt_data[w].forces_rms) = 1
                  /\ Len(opt_data[w].forces_max) = 1
                  /\ Len(opt_data[w].lattice_vectors_norm) = 1
                  /\ Len(opt_data[w].cell_volumes) = 1
            /\ fig[w] # NoSeries => SeriesLengths(fig[w], 1)

\* C12: once the worker of a loaded trajectory of N steps has ended, the
\* table holds N rows in the order of the steps; row i shows i, energies[i],
\* forces_max[i], forces_rms[i], the three norms and cell_volumes[i] of step
\* i, and delta_e[i-1], displacements_max[i-1], displacements_rms[i-1] for
\* i > 0, blank for step 0.
C12_TableRows ==
    \A w \in Opened :
        (variant = "windows" /\ ValidShapes(file[w]) /\ Loaded(w) /\ Ended(w)) =>
            LET d == opt_data[w]
                N == file[w].energies.shape[1]
            IN  /\ Len(table[w]) = N
                /\ \A r \in 1..N :
                      /\ table[w][r].index = r - 1
                      /\ table[w][r].energy = d.energies.v[r]
                      /\ table[w][r].forces_max = d.forces_max[r]
                      /\ table[w][r].forces_rms = d.forces_rms[r]
                      /\ table[w][r].a = d.lattice_vectors_norm[r][1]
                      /\ table[w][r].b = d.lattice_vectors_norm[r][2]
                      /\ table[w][r].c = d.lattice_vectors_norm[r][3]
                      /\ table[w][r].volume = d.cell_volumes[r]
                      /\ table[w][r].delta_e =
                            IF r > 1 THEN d.delta_e[r - 1] ELSE None
                      /\ table[w][r].displacements_max =
                            IF r > 1 THEN d.displacements_max[r - 1] ELSE None
                      /\ table[w][r].displacements_rms =
                            IF r > 1 THEN d.displacements_rms[r - 1] ELSE None

\* the callbacks of w that wait in the main loop
Scheduled(w) == {i \in DOMAIN idle : idle[i].w = w}

\* the main loop dispatches the callback of w in this step
Dispatched(w) == idle # <<>> /\ Head(idle).w = w /\ idle' = Tail(idle)

\* C13: each hand-off is one-shot and blocking.  A worker schedules one
\* callback and waits; the callback is dispatched once and never scheduled
\* again; the window's child and the error dialog appear only in the
\* dispatch of the window's own callback, which touches no other window; the
\* worker leaves its wait, and ends, only after the callback has run.
C13_HandOffOneShotBlocking ==
    /\ [](\A w \in Windows :
            /\ Cardinality(Scheduled(w)) <= 1
            /\ Scheduled(w) # {} =>
                  /\ ~event[w]
                  /\ pc[w] \in {"wait_error", "wait_child"}
                  /\ \A i \in Scheduled(w) :
                        idle[i].fn = IF pc[w] = "wait_error" THEN "show_error"
                                     ELSE "set_child"
            /\ pc[w] \in {"wait_error", "wait_child"} =>
                  (Scheduled(w) # {}) # event[w]
            /\ pc[w] \in {"wait_error", "failed"} => (event[w] <=> dialog[w] # "none")
            /\ pc[w] \in {"wait_child", "done"} => (event[w] <=> child[w] = "result")
            /\ pc[w] \in {"failed", "done"} => event[w]
            /\ pc[w] \notin {"wait_error", "wait_child", "failed", "done"} =>
                  ~event[w] /\ dialog[w] = "none" /\ child[w] # "result")
    /\ [][\A w \in Windows :
            /\ (child'[w] = "result" /\ child[w] # "result") =>
                  Dispatched(w) /\ Head(idle).fn = "set_child"
            /\ (dialog'[w] = "shown" /\ dialog[w] # "shown") =>
                  Dispatched(w) /\ Head(idle).fn = "show_error"
            /\ (event'[w] # event[w]) => Dispatched(w) /\ event'[w]
            /\ Dispatched(w) =>
                  /\ event'[w] /\ Scheduled(w)' = {}
                  /\ \A v \in Windows \ {w} :
                        /\ child'[v] = child[v] /\ dialog'[v] = dialog[v]
                        /\ event'[v] = event[v] /\ win'[v] = win[v]
            /\ (pc[w] \in {"wait_error", "wait_child"} /\ pc'[w] # pc[w]) => event[w]
            /\ event[w] => Scheduled(w)' = {}
       ]_vars

\* the callback of one window has run and set its child, while the callback
\* of another window waits in the main loop and its worker is blocked
C13_Witness ==
    \E w, v \in Opened :
        /\ w # v
        /\ event[w] /\ child[w] = "result" /\ pc[w] = "done"
        /\ pc[v] = "wait_error" /\ ~event[v] /\ child[v] = "placeholder"
        /\ idle = <<[w |-> v, fn |-> "show_error"]>>

====
